---- MODULE Spec2Model ----
(***************************************************************************)
(* Model of deepl_translator.py: the quota ledger (DeeplHistory) and the   *)
(* extraction / merge / fix engine (DeeplTranslator).                      *)
(*                                                                         *)
(* Texts are sequences of tokens.  A tag of the document format is one     *)
(* token; every other token is one character.  The regular expressions and *)
(* the literal replacements of the program are computed on these           *)
(* sequences as the program computes them on strings.                      *)
(***************************************************************************)
EXTENDS Integers, Sequences, FiniteSets, TLC

\* ------------------------------------------------------------------ tokens
SRC_O == "<source>"
SRC_C == "</source>"
TGT_O == "<target>"
TGT_C == "</target>"
MARK == "<target state=\"needs-translation\"/>"
NOTE_O == "<note from=\"Developer\" annotates=\"general\" priority=\"2\">"
NOTE_C == "</note>"
LANG == "es-ES"
EQ == "="
QUOTE == "\""
NL == "\n"
SP == " "
COLON == ":"

\* tokens that contain the character '<'
TagTokens == {SRC_O, SRC_C, TGT_O, TGT_C, MARK, NOTE_O, NOTE_C}

\* tokens that contain the character '"'
QuoteTokens == {MARK, NOTE_O, QUOTE}

\* \s of the regular expressions, and the characters str.strip() removes
IsSpace(c) == c \in {SP, NL}

\* code points of the one-character tokens, for Python's string order
Ord(c) ==
    CASE c = NL -> 10
      [] c = SP -> 32
      [] c = QUOTE -> 34
      [] c = COLON -> 58
      [] c = EQ -> 61
      [] c = "a" -> 97
      [] c = "b" -> 98
      [] c = "p" -> 112
      [] c = "q" -> 113
      [] c = "x" -> 120
      [] c = "y" -> 121
      [] OTHER -> 60

\* ---------------------------------------------------------- string helpers
Min(a, b) == IF a < b THEN a ELSE b

\* s[i..] starts with pat
StartsWith(s, i, pat) ==
    /\ i + Len(pat) - 1 <= Len(s)
    /\ SubSeq(s, i, i + Len(pat) - 1) = pat

\* Python: pat in s
Contains(s, pat) == \E i \in 1..(Len(s) + 1) : StartsWith(s, i, pat)

RECURSIVE ReplaceFrom(_, _, _, _)
ReplaceFrom(s, i, old, new) ==
    IF i > Len(s) THEN <<>>
    ELSE IF StartsWith(s, i, old)
         THEN new \o ReplaceFrom(s, i + Len(old), old, new)
         ELSE <<s[i]>> \o ReplaceFrom(s, i + 1, old, new)

RECURSIVE Intersperse(_, _, _)
Intersperse(s, i, new) ==
    IF i > Len(s) THEN new
    ELSE new \o <<s[i]>> \o Intersperse(s, i + 1, new)

\* Python: s.replace(old, new), every non-overlapping occurrence, left to right
Replace(s, old, new) ==
    IF old = <<>> THEN Intersperse(s, 1, new) ELSE ReplaceFrom(s, 1, old, new)

RECURSIVE Join(_, _)
\* Python: sep.join(items)
Join(items, sep) ==
    IF items = <<>> THEN <<>>
    ELSE IF Len(items) = 1 THEN items[1]
    ELSE items[1] \o sep \o Join(Tail(items), sep)

RECURSIVE SplitFrom(_, _, _)
SplitFrom(s, i, cur) ==
    IF i > Len(s) THEN <<cur>>
    ELSE IF s[i] = NL THEN <<cur>> \o SplitFrom(s, i + 1, <<>>)
    ELSE SplitFrom(s, i + 1, Append(cur, s[i]))

\* Python: s.split('\n')
Split(s) == SplitFrom(s, 1, <<>>)

\* Python: s.splitlines(): no empty last line after a final line break
SplitLines(s) ==
    LET parts == Split(s)
    IN  IF parts[Len(parts)] = <<>> THEN SubSeq(parts, 1, Len(parts) - 1) ELSE parts

\* Python: s.strip()
Strip(s) ==
    LET keep == {i \in 1..Len(s) : ~IsSpace(s[i])}
    IN  IF keep = {} THEN <<>>
        ELSE LET lo == CHOOSE i \in keep : \A j \in keep : i <= j
                 hi == CHOOSE i \in keep : \A j \in keep : j <= i
             IN  SubSeq(s, lo, hi)

RECURSIVE LexLess(_, _)
\* Python: a < b on strings
LexLess(a, b) ==
    IF b = <<>> THEN FALSE
    ELSE IF a = <<>> THEN TRUE
    ELSE IF Ord(a[1]) < Ord(b[1]) THEN TRUE
    ELSE IF Ord(a[1]) > Ord(b[1]) THEN FALSE
    ELSE LexLess(Tail(a), Tail(b))

RECURSIVE Sorted(_)
\* Python: list(sorted(S)) of a set of strings
Sorted(S) ==
    IF S = {} THEN <<>>
    ELSE LET m == CHOOSE x \in S : \A y \in S : x = y \/ LexLess(x, y)
         IN  <<m>> \o Sorted(S \ {m})

\* the set of the elements of a sequence
Range(s) == {s[i] : i \in 1..Len(s)}

\* ------------------------------------------------------- regular expressions
RECURSIVE NextTag(_, _)
\* first index >= i of a token that holds '<' (Len(s) + 1 when there is none)
NextTag(s, i) ==
    IF i > Len(s) THEN i
    ELSE IF s[i] \in TagTokens THEN i ELSE NextTag(s, i + 1)

RECURSIVE NextQuote(_, _)
\* first index >= i of a token that holds '"'
NextQuote(s, i) ==
    IF i > Len(s) THEN i
    ELSE IF s[i] \in QuoteTokens THEN i ELSE NextQuote(s, i + 1)

RECURSIVE SpaceEnd(_, _)
\* first index >= i of a token that is not white space
SpaceEnd(s, i) ==
    IF i > Len(s) THEN i
    ELSE IF IsSpace(s[i]) THEN SpaceEnd(s, i + 1) ELSE i

RECURSIVE LineEnd(_, _)
\* first index >= i of a line break
LineEnd(s, i) ==
    IF i > Len(s) THEN i
    ELSE IF s[i] = NL THEN i ELSE LineEnd(s, i + 1)

\* search_pattern:
\*   <source>([^<]+)</source>\s+(<target state="needs-translation"/>)
\* SearchClose(s, i) is the place of </source>, SearchMark(s, i) that of the marker
SearchClose(s, i) == NextTag(s, i + 1)

SearchMark(s, i) == SpaceEnd(s, SearchClose(s, i) + 1)

search_pattern(s, i) ==
    /\ i <= Len(s)
    /\ s[i] = SRC_O
    /\ SearchClose(s, i) > i + 1
    /\ SearchClose(s, i) <= Len(s)
    /\ s[SearchClose(s, i)] = SRC_C
    /\ SearchMark(s, i) > SearchClose(s, i) + 1
    /\ SearchMark(s, i) <= Len(s)
    /\ s[SearchMark(s, i)] = MARK

\* group 'source' of the match of search_pattern at i
SearchSource(s, i) == SubSeq(s, i + 1, SearchClose(s, i) - 1)

\* finditer: a match holds one <source>, so matches never overlap
SearchMatches(s) == {i \in 1..Len(s) : search_pattern(s, i)}

\* comment_pattern: search_pattern, then
\*   \s+<note ...>([a-z]{2}-[A-Z]{2})="([^"]+)"</note>
CommentNote(s, i) == SpaceEnd(s, SearchMark(s, i) + 1)

CommentQuote(s, i) == NextQuote(s, CommentNote(s, i) + 4)

comment_pattern(s, i) ==
    /\ search_pattern(s, i)
    /\ CommentNote(s, i) > SearchMark(s, i) + 1
    /\ StartsWith(s, CommentNote(s, i), <<NOTE_O, LANG, EQ, QUOTE>>)
    /\ CommentQuote(s, i) > CommentNote(s, i) + 4
    /\ StartsWith(s, CommentQuote(s, i), <<QUOTE, NOTE_C>>)

\* last index of the match of comment_pattern at i
CommentEnd(s, i) == CommentQuote(s, i) + 1

RECURSIVE CommentMatches(_, _)
\* finditer: the starts of the matches, left to right, none overlapping
CommentMatches(s, i) ==
    IF i > Len(s) THEN <<>>
    ELSE IF comment_pattern(s, i)
         THEN <<i>> \o CommentMatches(s, CommentEnd(s, i) + 1)
         ELSE CommentMatches(s, i + 1)

\* done_pattern: <source>(.+)</source>\s+?<target>(.+)</target>
\* '.' stops at a line break; both groups are greedy
DoneTargets(s, r) ==
    {q \in (r + 2)..(LineEnd(s, r + 1) - 1) : s[q] = TGT_C}

DoneCloses(s, i) ==
    {p \in (i + 2)..(LineEnd(s, i + 1) - 1) :
        /\ s[p] = SRC_C
        /\ SpaceEnd(s, p + 1) > p + 1
        /\ SpaceEnd(s, p + 1) <= Len(s)
        /\ s[SpaceEnd(s, p + 1)] = TGT_O
        /\ DoneTargets(s, SpaceEnd(s, p + 1)) # {}}

done_pattern(s, i) ==
    /\ i <= Len(s)
    /\ s[i] = SRC_O
    /\ DoneCloses(s, i) # {}

MaxOf(S) == CHOOSE x \in S : \A y \in S : y <= x

\* the match of done_pattern at i: its two groups and its last index
DoneMatch(s, i) ==
    LET p == MaxOf(DoneCloses(s, i))
        r == SpaceEnd(s, p + 1)
        q == MaxOf(DoneTargets(s, r))
    IN  [source |-> SubSeq(s, i + 1, p - 1),
         target |-> SubSeq(s, r + 1, q - 1),
         end |-> q]

RECURSIVE DoneFindAll(_, _)
\* findall: the (source, target) pairs, left to right, none overlapping
DoneFindAll(s, i) ==
    IF i > Len(s) THEN <<>>
    ELSE IF done_pattern(s, i)
         THEN <<<<DoneMatch(s, i).source, DoneMatch(s, i).target>>>>
              \o DoneFindAll(s, DoneMatch(s, i).end + 1)
         ELSE DoneFindAll(s, i + 1)

\* ------------------------------------------------------------- DeeplHistory
\* days of the months of a common year
DaysIn(mo) ==
    CASE mo = 2 -> 28
      [] mo \in {4, 6, 9, 11} -> 30
      [] OTHER -> 31

\* a < b on datetimes [mo, day, sec] of one year
TimeLess(a, b) ==
    \/ a.mo < b.mo
    \/ a.mo = b.mo /\ a.day < b.day
    \/ a.mo = b.mo /\ a.day = b.day /\ a.sec < b.sec

\* dateutil: t + relativedelta(months=1), the day cut to the month's last day
AddMonth(t) == [mo |-> t.mo + 1, day |-> Min(t.day, DaysIn(t.mo + 1)), sec |-> t.sec]

\* f"{t:%Y-%m-%d %H:%M}": the seconds are not written
Format(t) == [mo |-> t.mo, day |-> t.day]

\* datetime.strptime(text, '%Y-%m-%d %H:%M')
Parse(f) == [mo |-> f.mo, day |-> f.day, sec |-> 0]

\* the window taken as over already at the very end of the month
ExpiredOrDue(data, clock) == ~TimeLess(clock, AddMonth(Parse(data.date)))

\* the window of the stored record is over
Expired(data, clock) == TimeLess(AddMonth(Parse(data.date)), clock)

\* DeeplHistory.init: the fields of the history after reading the file
HistoryInit(file, clock) ==
    LET data == file[Len(file)]
    IN  [old_data |-> file,
         max_chars_per_month |-> data.max_chars_per_month,
         sent_chars |-> IF Expired(data, clock) THEN 0 ELSE data.sent_chars,
         start_date |-> IF Expired(data, clock) THEN clock ELSE Parse(data.date)]

\* a save that writes the new record alone
HistorySaveOverwrite(h, clock) ==
    <<[max_chars_per_month |-> h.max_chars_per_month,
       sent_chars |-> h.sent_chars,
       date |-> Format(h.start_date),
       last |-> Format(clock)]>>

\* DeeplHistory.save: the content of the file after the write
HistorySave(h, clock) ==
    Append(h.old_data,
           [max_chars_per_month |-> h.max_chars_per_month,
            sent_chars |-> h.sent_chars,
            date |-> Format(h.start_date),
            last |-> Format(clock)])

\* DeeplHistory.__init__
HistoryNew ==
    [old_data |-> <<>>, max_chars_per_month |-> 0, sent_chars |-> 0,
     start_date |-> [mo |-> 0, day |-> 0, sec |-> 0]]

\* ---------------------------------------------------------- DeeplTranslator
PadWidth == 11

\* f'{new_line:<11}': the line break filled with spaces up to 11 characters
Pad == <<NL>> \o [i \in 1..(PadWidth - 1) |-> SP]

IndentWidth == 10

\* indent of replace_comments
Indent == [i \in 1..IndentWidth |-> SP]

\* skip_expressions: the lines of the file, each stripped
skip_expressions(text) ==
    [i \in 1..Len(SplitLines(text)) |-> Strip(SplitLines(text)[i])]

\* collect_translations: the dict as the sequence of its (key, value) items
collect_translations(file) ==
    IF ~file.exists THEN <<>>
    ELSE LET list == DoneFindAll(file.text, 1)
             keys == Sorted({list[i][1] : i \in DOMAIN list})
             last(k) == list[MaxOf({i \in DOMAIN list : list[i][1] = k})][2]
         IN  [j \in 1..Len(keys) |-> <<keys[j], last(keys[j])>>]

\* the keys of a dict
Keys(dict) == {dict[i][1] : i \in DOMAIN dict}

\* the set built by the loop of get_untranslated_items
Sources(text) == {SearchSource(text, i) : i \in SearchMatches(text)}

\* get_untranslated_items: raised is the IndexError, items the new source_items
get_untranslated_items(text, skip_text, keep, file) ==
    LET sources == Sources(text) \ Range(skip_expressions(skip_text))
        not_translated_sources == sources \ Keys(collect_translations(file))
    IN  [raised |-> keep /\ not_translated_sources = {} /\ sources # {},
         items |-> Sorted(sources)]

\* save_raw: the text written to the raw file
save_raw(items, targets) ==
    Join([i \in 1..Min(Len(items), Len(targets)) |->
             items[i] \o <<COLON, SP>> \o targets[i]], <<NL>>)

RECURSIVE TranslateFrom(_, _, _, _)
TranslateFrom(text, items, targets, i) ==
    IF i > Min(Len(items), Len(targets)) THEN text
    ELSE TranslateFrom(
             Replace(text,
                     <<SRC_O>> \o items[i] \o <<SRC_C>> \o Pad \o <<MARK>>,
                     <<SRC_O>> \o items[i] \o <<SRC_C>> \o Pad
                         \o <<TGT_O>> \o targets[i] \o <<TGT_C>>),
             items, targets, i + 1)

\* translate: the text written to the translated file
translate(text, items, targets) == TranslateFrom(text, items, targets, 1)

\* dict.update({k: v}) on a dict kept as the sequence of its items
DictPut(dict, k, v) ==
    IF k \in Keys(dict)
    THEN [i \in DOMAIN dict |-> IF dict[i][1] = k THEN <<k, v>> ELSE dict[i]]
    ELSE Append(dict, <<k, v>>)

RECURSIVE FixData(_, _, _, _, _)
\* the loops of fix over the translations (i) and the fixes (j)
FixData(tr, fixes, i, j, data) ==
    IF i > Len(tr) THEN data
    ELSE IF j > Len(fixes) THEN FixData(tr, fixes, i + 1, 1, data)
    ELSE IF Contains(tr[i][2], fixes[j][1])
         THEN FixData(tr, fixes, i, j + 1,
                      DictPut(data, tr[i][2], Replace(tr[i][2], fixes[j][1], fixes[j][2])))
         ELSE FixData(tr, fixes, i, j + 1, data)

RECURSIVE FixText(_, _, _)
FixText(text, data, i) ==
    IF i > Len(data) THEN text
    ELSE FixText(Replace(text, data[i][1], data[i][2]), data, i + 1)

\* fix: new_text
fix(file, fixes) ==
    FixText(file.text, FixData(collect_translations(file), fixes, 1, 1, <<>>), 1)

RECURSIVE ReplaceComments(_, _, _, _)
ReplaceComments(orig, matches, k, cur) ==
    IF k > Len(matches) THEN cur
    ELSE LET i == matches[k]
             comment == SubSeq(orig, CommentNote(orig, i), CommentEnd(orig, i))
             transl == SubSeq(orig, CommentNote(orig, i) + 4, CommentQuote(orig, i) - 1)
             repl == SubSeq(orig, i, CommentEnd(orig, i))
             new == <<SRC_O>> \o SearchSource(orig, i) \o <<SRC_C, NL>> \o Indent
                    \o <<TGT_O>> \o transl \o <<TGT_C, NL>> \o Indent \o comment
         IN  ReplaceComments(orig, matches, k + 1, Replace(cur, repl, new))

\* replace_comments: the new self.source
replace_comments(text) == ReplaceComments(text, CommentMatches(text, 1), 1, text)

\* a budget test that lets the batch use the budget up
BudgetExceededStrict(h, length) == h.max_chars_per_month < h.sent_chars + length

\* the test of main: the monthly budget does not cover the batch
BudgetExceeded(h, length) == h.max_chars_per_month <= h.sent_chars + length

RECURSIVE StrLen(_)
\* len() of a text without tags, in characters
StrLen(s) ==
    IF s = <<>> THEN 0
    ELSE (IF s[1] = LANG THEN 5 ELSE 1) + StrLen(Tail(s))

\* ------------------------------------------------------------------ bounds
MaxUnits == 2
MaxLines == 2
MaxRuns == 2
MaxMonth == 3
MaxChars == 4

\* ------------------------------------------------------------------ inputs
Note(t) == <<NOTE_O, LANG, EQ, QUOTE>> \o t \o <<QUOTE, NOTE_C>>

\* one trans-unit of a document: source, white space, target, line break
Unit(src, gap, target) == <<SRC_O>> \o src \o <<SRC_C>> \o gap \o target \o <<NL>>

Gap2 == <<NL, SP, SP>>

Units ==
    {Unit(<<"a">>, Pad, <<MARK>>),
     Unit(<<"b">>, Pad, <<MARK>>),
     Unit(<<"b">>, Gap2, <<MARK>>),
     Unit(<<SP, "a">>, Pad, <<MARK>>),
     Unit(<<"a">>, Pad, <<TGT_O, "x", TGT_C>>),
     Unit(<<"b">>, Pad, <<MARK>> \o Pad \o Note(<<"y">>))}

RECURSIVE Flatten(_)
Flatten(ss) == IF ss = <<>> THEN <<>> ELSE ss[1] \o Flatten(Tail(ss))

\* the documents of at most MaxUnits units
Docs ==
    {Flatten(us) : us \in UNION {[1..n -> Units] : n \in 0..MaxUnits}}

Absent == [exists |-> FALSE, text |-> <<>>]

File(text) == [exists |-> TRUE, text |-> text]

SkipFiles == {<<>>, <<"a", NL>>, <<SP, "a", NL>>}

KnownFiles == {Absent, File(Unit(<<"a">>, Pad, <<TGT_O, "x", TGT_C>>))}

FixedDocs ==
    {Unit(<<"a">>, Pad, <<TGT_O, "x", TGT_C>>),
     Unit(<<"a">>, Pad, <<TGT_O, "x", "y", TGT_C>>),
     Unit(<<"x">>, Pad, <<TGT_O, "x", "y", TGT_C>>),
     Unit(<<"a">>, Pad, <<TGT_O, "y", TGT_C>>) \o Unit(<<"b">>, Pad, <<TGT_O, "x", "y", TGT_C>>)}

FixTables ==
    {<< <<<<"x">>, <<"p">>>> >>,
     << <<<<"x">>, <<"p">>>>, <<<<"y">>, <<"q">>>> >>}

DefaultFixes == << <<<<"x">>, <<"p">>>>, <<<<"y">>, <<"q">>>> >>

QuotaDocs ==
    {Unit(<<"a">>, Pad, <<MARK>>),
     Unit(<<"a">>, Pad, <<MARK>>) \o Unit(<<"b">>, Pad, <<MARK>>)}

Days == {28, 31}

Secs == {0, 30}

Times ==
    {t \in [mo : 1..MaxMonth, day : Days, sec : Secs] : t.day <= DaysIn(t.mo)}

LastTime == CHOOSE t \in Times : \A u \in Times : u = t \/ TimeLess(u, t)

Record(max, sent, date) ==
    [max_chars_per_month |-> max, sent_chars |-> sent, date |-> date, last |-> date]

\* what translate_text answers: k lines, or no answer (the call raises)
RECURSIVE Lines(_)
Lines(k) ==
    IF k = 0 THEN <<>>
    ELSE Append(Lines(k - 1), IF k % 2 = 1 THEN <<"x">> ELSE <<"y">>)

Responses == {Join(Lines(k), <<NL>>) : k \in 1..MaxLines}

Commands == {"translate", "read", "fix", "collect", "test", "use_comments"}

\* ------------------------------------------------------------------- state
VARIABLES
    deepl_json,        \* resources/deepl.json: the sequence of records
    source_file,       \* resources/<source>.xlf
    translated_file,   \* resources/<source>.translated.xlf
    skip_file,         \* resources/skip_expressions.txt
    fixes_file,        \* resources/fixes.json: the sequence of (faulty, corrected)
    raw_file,          \* resources/translations_<now>.txt of this run
    now,               \* the clock
    runs,              \* the number of runs started
    cmd,               \* the command of this run
    pc,                \* the place of this run in its command
    keep_known_translations,
    history,           \* the fields of DeeplHistory
    source,
    source_items,
    target_items,
    translations,      \* result.text in main
    outcome,           \* "running", "ok" or the exception that ended the run
    trace,             \* the calls made by this run, in order
    loaded,            \* the history as DeeplHistory.init left it in this run
    start_json,        \* deepl.json when this run started
    start_translated   \* the translated file when this run started

files == <<deepl_json, source_file, translated_file, skip_file, fixes_file, raw_file>>

memory == <<cmd, keep_known_translations, history, source, source_items,
            target_items, translations, outcome, trace, loaded,
            start_json, start_translated>>

vars == <<files, now, runs, pc, memory>>

\* DeeplTranslator.__init__: a process that runs no command yet
Fresh ==
    /\ cmd = "none"
    /\ keep_known_translations = FALSE
    /\ history = HistoryNew
    /\ source = <<>>
    /\ source_items = <<>>
    /\ target_items = <<>>
    /\ translations = <<>>
    /\ outcome = "running"
    /\ trace = <<>>
    /\ loaded = HistoryNew
    /\ start_json = deepl_json
    /\ start_translated = translated_file

\* documents, skip lists and known translations; a fresh budget
InitDocs ==
    /\ source_file \in Docs
    /\ translated_file \in KnownFiles
    /\ skip_file \in SkipFiles
    /\ fixes_file = DefaultFixes
    /\ now = LastTime
    /\ deepl_json = <<Record(MaxChars, 0, Format(LastTime))>>

\* budgets and windows
InitQuota ==
    /\ source_file \in QuotaDocs
    /\ translated_file = Absent
    /\ skip_file = <<>>
    /\ fixes_file = DefaultFixes
    /\ \E date \in {Format(t) : t \in {u \in Times : u.mo = 1}}, sent \in 0..MaxChars :
          /\ deepl_json = <<Record(MaxChars, sent, date)>>
          /\ now = Parse(date)

\* translated documents and fix tables
InitFix ==
    /\ source_file = <<>>
    /\ translated_file \in {File(d) : d \in FixedDocs}
    /\ skip_file = <<>>
    /\ fixes_file \in FixTables
    /\ now = LastTime
    /\ deepl_json = <<Record(MaxChars, 0, Format(LastTime))>>

Init ==
    /\ InitDocs \/ InitQuota \/ InitFix
    /\ raw_file = Absent
    /\ runs = 0
    /\ pc = "idle"
    /\ Fresh

\* ----------------------------------------------------------------- actions
Log(event) == trace' = Append(trace, event)

End(result) == pc' = "done" /\ outcome' = result

\* __main__: a new process parses its arguments and picks the command
Start(c, k) ==
    /\ pc = "idle"
    /\ runs < MaxRuns
    /\ runs' = runs + 1
    /\ cmd' = c
    /\ keep_known_translations' = k
    /\ pc' = CASE c = "translate" -> "main_load"
               [] c = "read" -> "read_and_show"
               [] OTHER -> c
    /\ raw_file' = Absent
    /\ start_json' = deepl_json
    /\ start_translated' = translated_file
    /\ UNCHANGED <<deepl_json, source_file, translated_file, skip_file, fixes_file,
                   now, history, source, source_items, target_items, translations,
                   outcome, trace, loaded>>

\* main: self.load()
Load ==
    /\ pc = "main_load"
    /\ history' = HistoryInit(deepl_json, now)
    /\ loaded' = HistoryInit(deepl_json, now)
    /\ Log("load")
    /\ pc' = "main_extract"
    /\ UNCHANGED <<files, now, runs, cmd, keep_known_translations, source,
                   source_items, target_items, translations, outcome,
                   start_json, start_translated>>

\* main: read_source(), get_untranslated_items(), collect_translations()
Extract ==
    /\ pc = "main_extract"
    /\ source' = source_file
    /\ Log("get_untranslated_items")
    /\ LET res == get_untranslated_items(source_file, skip_file,
                                         keep_known_translations, translated_file)
       IN  IF res.raised
           THEN End("IndexError") /\ UNCHANGED source_items
           ELSE /\ source_items' = res.items
                /\ pc' = "main_check"
                /\ UNCHANGED outcome
    /\ UNCHANGED <<files, now, runs, cmd, keep_known_translations, history,
                   target_items, translations, loaded, start_json, start_translated>>

\* length of main
Length == StrLen(Join(source_items, <<NL>>))

\* main: the budget test and the test of the batch
Check ==
    /\ pc = "main_check"
    /\ Log("check")
    /\ IF BudgetExceeded(history, Length) THEN End("OverflowError")
       ELSE IF Join(source_items, <<NL>>) = <<>> THEN End("NameError")
       ELSE pc' = "main_call" /\ UNCHANGED outcome
    /\ UNCHANGED <<files, now, runs, cmd, keep_known_translations, history,
                   source, source_items, target_items, translations, loaded,
                   start_json, start_translated>>

\* main: self.deepl.translate_text(...) answers
Call(text) ==
    /\ pc = "main_call"
    /\ Log("translate_text")
    /\ translations' = text
    /\ pc' = "main_commit"
    /\ UNCHANGED <<files, now, runs, cmd, keep_known_translations, history,
                   source, source_items, target_items, outcome, loaded,
                   start_json, start_translated>>

\* main: self.deepl.translate_text(...) raises
CallFails ==
    /\ pc = "main_call"
    /\ Log("translate_text")
    /\ End("DeepLException")
    /\ UNCHANGED <<files, now, runs, cmd, keep_known_translations, history,
                   source, source_items, target_items, translations, loaded,
                   start_json, start_translated>>

\* a commit that does not count the batch
ChargedNothing(h, length) == h

\* the history after self.history.sent_chars += length and before save()
Charged(h, length) == [h EXCEPT !.sent_chars = @ + length]

\* main: sent_chars += length, history.save(), target_items = split
Commit ==
    /\ pc = "main_commit"
    /\ Log("save")
    /\ deepl_json' = HistorySave(Charged(history, Length), now)
    /\ history' = [Charged(history, Length) EXCEPT
                       !.old_data = HistorySave(Charged(history, Length), now)]
    /\ target_items' = Split(translations)
    /\ pc' = "main_save_raw"
    /\ UNCHANGED <<source_file, translated_file, skip_file, fixes_file, raw_file,
                   now, runs, cmd, keep_known_translations, source, source_items,
                   translations, outcome, loaded, start_json, start_translated>>

\* main: self.save_raw()
SaveRaw ==
    /\ pc = "main_save_raw"
    /\ Log("save_raw")
    /\ raw_file' = File(save_raw(source_items, target_items))
    /\ pc' = "main_translate"
    /\ UNCHANGED <<deepl_json, source_file, translated_file, skip_file, fixes_file,
                   now, runs, cmd, keep_known_translations, history, source,
                   source_items, target_items, translations, outcome, loaded,
                   start_json, start_translated>>

\* main: self.translate()
Translate ==
    /\ pc = "main_translate"
    /\ Log("translate")
    /\ translated_file' = File(translate(source, source_items, target_items))
    /\ End("ok")
    /\ UNCHANGED <<deepl_json, source_file, skip_file, fixes_file, raw_file,
                   now, runs, cmd, keep_known_translations, history, source,
                   source_items, target_items, translations, loaded,
                   start_json, start_translated>>

\* read_and_show
ReadAndShow ==
    /\ pc = "read_and_show"
    /\ source' = source_file
    /\ Log("get_untranslated_items")
    /\ LET res == get_untranslated_items(source_file, skip_file,
                                         keep_known_translations, translated_file)
       IN  IF res.raised
           THEN End("IndexError") /\ UNCHANGED source_items
           ELSE End("ok") /\ source_items' = res.items
    /\ UNCHANGED <<files, now, runs, cmd, keep_known_translations, history,
                   target_items, translations, loaded, start_json, start_translated>>

\* fix
Fix ==
    /\ pc = "fix"
    /\ Log("fix")
    /\ IF ~translated_file.exists
       THEN End("FileNotFoundError") /\ UNCHANGED translated_file
       ELSE IF fix(translated_file, fixes_file) = translated_file.text
       THEN End("NotImplementedError") /\ UNCHANGED translated_file
       ELSE /\ translated_file' = File(fix(translated_file, fixes_file))
            /\ End("ok")
    /\ UNCHANGED <<deepl_json, source_file, skip_file, fixes_file, raw_file,
                   now, runs, cmd, keep_known_translations, history, source,
                   source_items, target_items, translations, loaded,
                   start_json, start_translated>>

\* collect_translations as a command: the result is dropped
Collect ==
    /\ pc = "collect"
    /\ Log("collect_translations")
    /\ End("ok")
    /\ UNCHANGED <<files, now, runs, cmd, keep_known_translations, history,
                   source, source_items, target_items, translations, loaded,
                   start_json, start_translated>>

\* test
Test ==
    /\ pc = "test"
    /\ history' = HistoryInit(deepl_json, now)
    /\ loaded' = HistoryInit(deepl_json, now)
    /\ source' = source_file
    /\ Log("get_untranslated_items")
    /\ LET res == get_untranslated_items(source_file, skip_file,
                                         keep_known_translations, translated_file)
       IN  IF res.raised
           THEN End("IndexError") /\ UNCHANGED source_items
           ELSE End("ok") /\ source_items' = res.items
    /\ UNCHANGED <<files, now, runs, cmd, keep_known_translations,
                   target_items, translations, start_json, start_translated>>

\* use_comments
UseComments ==
    /\ pc = "use_comments"
    /\ history' = HistoryInit(deepl_json, now)
    /\ loaded' = HistoryInit(deepl_json, now)
    /\ source' = replace_comments(source_file)
    /\ Log("replace_comments")
    /\ LET res == get_untranslated_items(replace_comments(source_file), skip_file,
                                         keep_known_translations, translated_file)
       IN  source_items' = IF res.raised THEN source_items ELSE res.items
    /\ translated_file' = File(replace_comments(source_file))
    /\ End("ok")
    /\ UNCHANGED <<deepl_json, source_file, skip_file, fixes_file, raw_file,
                   now, runs, cmd, keep_known_translations, target_items,
                   translations, start_json, start_translated>>

\* the process ends; the next one starts from DeeplTranslator.__init__
Exit ==
    /\ pc = "done"
    /\ pc' = "idle"
    /\ raw_file' = Absent
    /\ cmd' = "none"
    /\ keep_known_translations' = FALSE
    /\ history' = HistoryNew
    /\ source' = <<>>
    /\ source_items' = <<>>
    /\ target_items' = <<>>
    /\ translations' = <<>>
    /\ outcome' = "running"
    /\ trace' = <<>>
    /\ loaded' = HistoryNew
    /\ start_json' = deepl_json
    /\ start_translated' = translated_file
    /\ UNCHANGED <<deepl_json, source_file, translated_file, skip_file, fixes_file,
                   now, runs>>

\* time passes between two runs
Tick(t) ==
    /\ pc = "idle"
    /\ TimeLess(now, t)
    /\ now' = t
    /\ UNCHANGED <<files, runs, pc, memory>>

Next ==
    \/ \E c \in Commands, k \in BOOLEAN : Start(c, k)
    \/ Load
    \/ Extract
    \/ Check
    \/ \E text \in Responses : Call(text)
    \/ CallFails
    \/ Commit
    \/ SaveRaw
    \/ Translate
    \/ ReadAndShow
    \/ Fix
    \/ Collect
    \/ Test
    \/ UseComments
    \/ Exit
    \/ \E t \in Times : Tick(t)

Spec == Init /\ [][Next]_vars

\* ------------------------------------------------------------------ claims
Did(event) == event \in Range(trace)

Errors == {"IndexError", "OverflowError", "NameError", "DeepLException",
           "FileNotFoundError", "NotImplementedError"}

LastRecord(file) == file[Len(file)]

\* the calls of a translate run up to the commit, in the order of main
CommitPath == <<"load", "get_untranslated_items", "check", "translate_text", "save">>

\* C1: in a translate run, whenever max_chars_per_month <= sent_chars + length
\* of the batch, the run ends with OverflowError before the translation call:
\* no call is made, no record is written to deepl.json, and neither the raw
\* file nor the translated document is written.
C1_QuotaExceededBeforeCall ==
    (/\ cmd = "translate"
     /\ Did("check")
     /\ loaded.max_chars_per_month <= loaded.sent_chars + Length)
    => /\ pc = "done"
       /\ outcome = "OverflowError"
       /\ ~Did("translate_text")
       /\ deepl_json = start_json
       /\ ~raw_file.exists
       /\ translated_file = start_translated

\* a translate run with a batch to send was refused by the budget test
C1_Witness ==
    /\ cmd = "translate"
    /\ outcome = "OverflowError"
    /\ source_items # <<>>
    /\ loaded.sent_chars > 0

\* C2: a record is written only by a translate run, after the budget test has
\* passed and the translation call has answered; the record written holds the
\* sent_chars loaded for this run plus the characters sent; a failed
\* translation call leaves deepl.json as it was.
C2_CommitAfterCheckAndCall ==
    /\ (deepl_json # start_json \/ Did("save"))
       => /\ cmd = "translate"
          /\ Len(trace) >= Len(CommitPath)
          /\ SubSeq(trace, 1, Len(CommitPath)) = CommitPath
          /\ loaded.max_chars_per_month > loaded.sent_chars + Length
          /\ Len(deepl_json) = Len(start_json) + 1
          /\ LastRecord(deepl_json).sent_chars = loaded.sent_chars + Length
    /\ outcome = "DeepLException" => deepl_json = start_json

\* a run committed a batch on top of characters already sent in the window
C2_Witness ==
    /\ Did("save")
    /\ Length > 0
    /\ loaded.sent_chars > 0
    /\ LastRecord(deepl_json).sent_chars = loaded.sent_chars + Length

\* C3: with keep_known_translations set, source_items after
\* get_untranslated_items holds no key of collect_translations of the
\* translated document.
C3_KnownExcluded ==
    (/\ keep_known_translations
     /\ cmd \in {"translate", "read", "test"}
     /\ Did("get_untranslated_items")
     /\ outcome # "IndexError")
    => Range(source_items) \cap Keys(collect_translations(start_translated)) = {}

\* C4: in a translate run NameError is raised only when the document is
\* empty; for a non-empty document whose batch is empty the translation call
\* is skipped and the run ends without an error, whatever the budget is.
C4_EmptySourceOnlyForEmptyDocument ==
    (cmd = "translate" /\ pc = "done")
    => /\ outcome = "NameError" => source = <<>>
       /\ (Did("check") /\ source # <<>> /\ source_items = <<>>)
          => (outcome \notin Errors /\ ~Did("translate_text"))

\* C5: after translate() has merged a translation for a segment that
\* search_pattern reported as pending, search_pattern does not report that
\* segment in the merged document.
C5_MergeThenExtract ==
    (cmd = "translate" /\ Did("translate"))
    => \A i \in 1..Min(Len(source_items), Len(target_items)) :
          source_items[i] \notin Sources(translated_file.text)

RECURSIVE Merged(_, _, _, _)
\* the document with the marker of every pending segment of the batch replaced
\* by the target of the same index
Merged(text, items, targets, i) ==
    IF i > Len(text) THEN <<>>
    ELSE IF search_pattern(text, i) /\ SearchSource(text, i) \in Range(items)
         THEN LET k == CHOOSE j \in DOMAIN items : items[j] = SearchSource(text, i)
              IN  SubSeq(text, i, SearchMark(text, i) - 1)
                  \o <<TGT_O>> \o targets[k] \o <<TGT_C>>
                  \o Merged(text, items, targets, SearchMark(text, i) + 1)
         ELSE <<text[i]>> \o Merged(text, items, targets, i + 1)

\* C6: when the translation call answers one line per segment of the batch,
\* the merged document has the marker of every pending segment s_i of the
\* batch replaced by <target>t_i</target>, and the raw file holds exactly the
\* lines 's_i: t_i'.
C6_PairedByIndex ==
    (/\ cmd = "translate"
     /\ Did("translate")
     /\ Len(target_items) = Len(source_items))
    => /\ translated_file.text = Merged(source, source_items, target_items, 1)
       /\ SplitLines(raw_file.text)
             = [i \in 1..Len(source_items) |->
                   source_items[i] \o <<COLON, SP>> \o target_items[i]]

\* the (faulty, corrected) pairs whose faulty text is in a collected value
Applicable(file, fixes) ==
    {j \in DOMAIN fixes :
        \E i \in DOMAIN collect_translations(file) :
            Contains(collect_translations(file)[i][2], fixes[j][1])}

RECURSIVE AllReplaced(_, _, _, _)
\* every occurrence of the faulty text of every pair of js replaced
AllReplaced(text, fixes, js, j) ==
    IF j > Len(fixes) THEN text
    ELSE IF j \in js
         THEN AllReplaced(Replace(text, fixes[j][1], fixes[j][2]), fixes, js, j + 1)
         ELSE AllReplaced(text, fixes, js, j + 1)

\* C7: after fix, for every (faulty, corrected) pair whose faulty text is in a
\* collected translation value, every occurrence of faulty in the document is
\* replaced by corrected, also when several pairs match the same value.
C7_AllFaultyReplaced ==
    (cmd = "fix" /\ pc = "done" /\ outcome = "ok")
    => /\ translated_file.text
             = AllReplaced(start_translated.text, fixes_file,
                           Applicable(start_translated, fixes_file), 1)
       /\ \A j \in Applicable(start_translated, fixes_file) :
             ~Contains(translated_file.text, fixes_file[j][1])

\* C8: source_items never holds a line of the skip-list file.
C8_SkipListedNeverExtracted ==
    (Did("get_untranslated_items") /\ outcome # "IndexError")
    => Range(source_items) \cap Range(SplitLines(skip_file)) = {}

\* C9: after DeeplHistory.init, when the stored window start is more than one
\* calendar month before now, sent_chars is 0 and start_date is now; otherwise
\* both are the stored values; max_chars_per_month is the stored value.
C9_WindowResetOnLoad ==
    loaded # HistoryNew
    => LET data == LastRecord(start_json)
       IN  /\ loaded.max_chars_per_month = data.max_chars_per_month
           /\ TimeLess(AddMonth(Parse(data.date)), now)
              => (loaded.sent_chars = 0 /\ loaded.start_date = now)
           /\ ~TimeLess(AddMonth(Parse(data.date)), now)
              => /\ loaded.sent_chars = data.sent_chars
                 /\ Format(loaded.start_date) = data.date

\* a load that found the window over and dropped the characters counted
C9_Witness ==
    /\ Did("load")
    /\ LastRecord(start_json).sent_chars > 0
    /\ loaded.sent_chars = 0
    /\ Format(loaded.start_date) # LastRecord(start_json).date

\* the step writes nothing to deepl.json, or appends one record to it
AppendsOne ==
    /\ Len(deepl_json') = Len(deepl_json) + 1
    /\ SubSeq(deepl_json', 1, Len(deepl_json)) = deepl_json

\* C10: from a file whose record has sent_chars < max_chars_per_month, after
\* any runs of any commands, with or without the window ending between them,
\* every record has sent_chars < max_chars_per_month, no record is changed or
\* removed, and only a translate run that made a translation call appends a
\* record, and then only one.
C10_QuotaInvariant ==
    /\ [](deepl_json[1].sent_chars < deepl_json[1].max_chars_per_month
          => \A i \in DOMAIN deepl_json :
                deepl_json[i].sent_chars < deepl_json[i].max_chars_per_month)
    /\ [][\/ deepl_json' = deepl_json
          \/ /\ AppendsOne
             /\ cmd = "translate"
             /\ Did("translate_text")
             /\ ~Did("save")]_vars

\* two translate runs appended a record each, the second in a new window
C10_Witness ==
    /\ Len(deepl_json) = 3
    /\ deepl_json[1].sent_chars < deepl_json[1].max_chars_per_month
    /\ deepl_json[3].date # deepl_json[2].date
    /\ deepl_json[2].sent_chars > 0

====
